---------------------------- MODULE Spec2Model ----------------------------
(***************************************************************************)
(* Model of src/stock_check.py: the financial ratio derivation, the        *)
(* valuation band, the weighted letter rating and the per-ticker batch     *)
(* loop of main().                                                         *)
(*                                                                         *)
(* Numbers.  A value read from a statement table or from the market "info" *)
(* mapping is a record: [k |-> "nan"] (numpy NaN, the unavailable marker), *)
(* [k |-> "num", n, d] (the rational n/d in lowest terms, d > 0),          *)
(* [k |-> "inf", n] (a numpy division by zero), [k |-> "str", s] or         *)
(* [k |-> "none"] (Python's None).                                         *)
(* Statement and valuation arithmetic is carried out exactly on rationals. *)
(* The rating score is accumulated in IEEE-754 binary64 as Python does,    *)
(* because the letter boundaries (>= 2.0, ...) are decided by the rounded  *)
(* value: a binary64 is held as a two-limb natural counting units of       *)
(* 2^-55, and each operation rounds to 53 significant bits, to nearest,    *)
(* ties to even.                                                           *)
(***************************************************************************)
EXTENDS Integers, Sequences, FiniteSets, TLC

VARIABLES
    pc,          \* position of the running entry point
    arg,         \* argument(s) of the function under analysis
    result,      \* its return value
    tickers,     \* main: the parsed ticker list
    idx,         \* main: loop index i (number of tickers processed)
    all_ratios,  \* main: dict ticker -> ratios
    errors,      \* main: list of error messages (the ticker each names)
    ratings      \* main: dict ticker -> letter

vars == <<pc, arg, result, tickers, idx, all_ratios, errors, ratings>>

mainVars == <<tickers, idx, all_ratios, errors, ratings>>

----------------------------------------------------------------------------
(* Exact values: NaN, rationals, infinities, strings *)

NaN == [k |-> "nan"]

Abs(x) == IF x < 0 THEN -x ELSE x

RECURSIVE GCD(_, _)
GCD(a, b) == IF b = 0 THEN a ELSE GCD(b, a % b)

Num(n, d) ==
    LET g == GCD(Abs(n), Abs(d))
        s == IF d < 0 THEN -1 ELSE 1
    IN  [k |-> "num", n |-> (s * n) \div g, d |-> (s * d) \div g]

IntV(n) == Num(n, 1)

Inf(sign) == [k |-> "inf", n |-> sign]

Str(s) == [k |-> "str", s |-> s]

IsNum(v) == v.k = "num"

\* Python's None
None == [k |-> "none"]

\* pd.isna: True of NaN and of None
isna(v) == v.k \in {"nan", "none"}

Sign(n) == IF n < 0 THEN -1 ELSE IF n > 0 THEN 1 ELSE 0

\* float arithmetic with NaN propagation (operands are numbers, NaN or inf)
Add(a, b) ==
    IF isna(a) \/ isna(b) THEN NaN
    ELSE IF a.k = "inf" THEN (IF b.k = "inf" /\ b.n # a.n THEN NaN ELSE a)
    ELSE IF b.k = "inf" THEN b
    ELSE Num(a.n * b.d + b.n * a.d, a.d * b.d)

Neg(a) ==
    IF isna(a) THEN NaN
    ELSE IF a.k = "inf" THEN Inf(-a.n)
    ELSE Num(-a.n, a.d)

Sub(a, b) == Add(a, Neg(b))

Mul(a, b) ==
    IF isna(a) \/ isna(b) THEN NaN
    ELSE IF a.k = "inf" \/ b.k = "inf"
         THEN (IF Sign(a.n) * Sign(b.n) = 0 THEN NaN ELSE Inf(Sign(a.n) * Sign(b.n)))
    ELSE Num(a.n * b.n, a.d * b.d)

\* numpy float64 division: x/0 is +-inf, 0/0 is NaN, no exception
Div(a, b) ==
    IF isna(a) \/ isna(b) THEN NaN
    ELSE IF a.k = "inf" THEN (IF b.k = "inf" THEN NaN
                              ELSE Inf(a.n * (IF b.n < 0 THEN -1 ELSE 1)))
    ELSE IF b.k = "inf" THEN IntV(0)
    ELSE IF b.n = 0 THEN (IF a.n = 0 THEN NaN ELSE Inf(Sign(a.n)))
    ELSE Num(a.n * b.d, a.d * b.n)

AbsV(a) ==
    IF isna(a) THEN NaN
    ELSE IF a.k = "inf" THEN Inf(1)
    ELSE Num(Abs(a.n), a.d)

\* comparisons: every comparison with NaN is False, except !=
Lt(a, b) ==
    IF isna(a) \/ isna(b) THEN FALSE
    ELSE IF a.k = "inf" THEN a.n < 0 /\ ~(b.k = "inf" /\ b.n < 0)
    ELSE IF b.k = "inf" THEN b.n > 0
    ELSE a.n * b.d < b.n * a.d

Gt(a, b) == Lt(b, a)

Eq(a, b) == ~isna(a) /\ ~isna(b) /\ ~Lt(a, b) /\ ~Lt(b, a)

Le(a, b) == Lt(a, b) \/ Eq(a, b)

Ge(a, b) == Le(b, a)

Ne(a, b) == ~Eq(a, b)

\* Python's max(a, b): b only if b > a
Max(a, b) == IF Gt(b, a) THEN b ELSE a

\* Python's min(a, b): b only if b < a
Min(a, b) == IF Lt(b, a) THEN b ELSE a

----------------------------------------------------------------------------
(* IEEE-754 binary64 on the values of the rating score.  A double x with   *)
(* 0.125 <= x < 8 is the natural x * 2^55, held as <<hi, lo>> with         *)
(* value hi * 2^29 + lo.                                                   *)

Limb == 2^29

Big(hi, lo) == <<hi, lo>>

BigZero == <<0, 0>>

BigAdd(a, b) ==
    LET lo == a[2] + b[2]
    IN  <<a[1] + b[1] + (lo \div Limb), lo % Limb>>

\* a - b for a >= b
BigSub(a, b) ==
    LET lo == a[2] - b[2]
    IN  IF lo < 0 THEN <<a[1] - b[1] - 1, lo + Limb>> ELSE <<a[1] - b[1], lo>>

BigLt(a, b) == a[1] < b[1] \/ (a[1] = b[1] /\ a[2] < b[2])

BigGe(a, b) == ~BigLt(a, b)

\* a * m for a small natural m
BigMulSmall(a, m) ==
    LET lo == a[2] * m
    IN  <<a[1] * m + (lo \div Limb), lo % Limb>>

RECURSIVE BitLen(_)
BitLen(n) == IF n = 0 THEN 0 ELSE 1 + BitLen(n \div 2)

BigBitLen(a) == IF a[1] > 0 THEN 29 + BitLen(a[1]) ELSE BitLen(a[2])

\* round the exact natural a (plus a nonzero fraction below it when sticky)
\* to 53 significant bits, to nearest, ties to even
F64Round(a, sticky) ==
    LET drop == BigBitLen(a) - 53
    IN  IF drop <= 0 THEN a
        ELSE LET unit == 2^drop
                 low  == a[2] % unit
                 half == unit \div 2
                 odd  == (a[2] \div unit) % 2 = 1
                 up   == low > half \/ (low = half /\ (sticky \/ odd))
                 down == <<a[1], a[2] - low>>
             IN  IF up THEN BigAdd(down, <<0, unit>>) ELSE down

F64Add(a, b) == F64Round(BigAdd(a, b), FALSE)

\* float * int
F64MulInt(a, m) == F64Round(BigMulSmall(a, m), FALSE)

\* long division: frac more quotient bits; st = <<remainder, quotient>>
RECURSIVE DivBits(_, _, _)
DivBits(st, den, frac) ==
    IF frac = 0 THEN st
    ELSE LET r2 == BigMulSmall(st[1], 2)
             q2 == BigMulSmall(st[2], 2)
         IN  IF BigGe(r2, den)
             THEN DivBits(<<BigSub(r2, den), BigAdd(q2, <<0, 1>>)>>, den, frac - 1)
             ELSE DivBits(<<r2, q2>>, den, frac - 1)

\* the integer part of num / den, for num / den < 8; st = <<remainder, quotient>>
RECURSIVE DivInt(_, _)
DivInt(st, den) ==
    IF BigLt(st[1], den) THEN st
    ELSE DivInt(<<BigSub(st[1], den), BigAdd(st[2], <<0, 1>>)>>, den)

\* float / float for a quotient in [1, 8): the quotient to 55 fraction bits,
\* then rounded with the remainder as the sticky bit
F64Div(a, b) ==
    LET qr == DivBits(DivInt(<<a, BigZero>>, b), b, 55)
    IN  F64Round(qr[2], qr[1] # BigZero)

F64Ge(a, b) == BigGe(a, b)

----------------------------------------------------------------------------
(* get_color_thresholds and calculate_rating *)

GoodGrossMargin == 40
NeutralGrossMargin == 20
GoodOperatingMargin == 15
NeutralOperatingMargin == 8
GoodROCE == 15
NeutralROCE == 10
GoodCashConversion == 90
NeutralCashConversion == 70
GoodDebtToEquity == 1
NeutralDebtToEquity == 2
GoodInterestCoverage == 5
NeutralInterestCoverage == 2

get_color_thresholds ==
    [m \in {"Gross Margin (%)", "Operating Margin (%)", "ROCE (%)",
            "Cash Conversion (%)", "Debt to Equity", "Interest Coverage"} |->
       CASE m = "Gross Margin (%)" ->
              [good |-> IntV(GoodGrossMargin), neutral |-> IntV(NeutralGrossMargin)]
         [] m = "Operating Margin (%)" ->
              [good |-> IntV(GoodOperatingMargin), neutral |-> IntV(NeutralOperatingMargin)]
         [] m = "ROCE (%)" ->
              [good |-> IntV(GoodROCE), neutral |-> IntV(NeutralROCE)]
         [] m = "Cash Conversion (%)" ->
              [good |-> IntV(GoodCashConversion), neutral |-> IntV(NeutralCashConversion)]
         [] m = "Debt to Equity" ->
              [good |-> IntV(GoodDebtToEquity), neutral |-> IntV(NeutralDebtToEquity)]
         [] m = "Interest Coverage" ->
              [good |-> IntV(GoodInterestCoverage), neutral |-> IntV(NeutralInterestCoverage)]]

\* the doubles nearest 0.15 and 0.20, in units of 2^-55
F64_0_15 == Big(10066329, 322122547)
F64_0_20 == Big(13421772, 429496730)

\* the weights dict, in insertion order
WeightOrder ==
    <<"Gross Margin (%)", "Operating Margin (%)", "ROCE (%)",
      "Cash Conversion (%)", "Debt to Equity", "Interest Coverage">>

weights ==
    [m \in {WeightOrder[i] : i \in 1..Len(WeightOrder)} |->
       IF m \in {"Operating Margin (%)", "ROCE (%)"} THEN F64_0_20 ELSE F64_0_15]

\* the doubles nearest 2.7, 2.3, 2.0 and 1.7, in units of 2^-55
F64_2_7 == Big(181193932, 429496736)
F64_2_3 == Big(154350387, 107374176)
F64_2_0 == Big(134217728, 0)
F64_1_7 == Big(114085068, 429496728)

\* "metric in ratios and not pd.isna(ratios[metric])"
Available(ratios, metric) == metric \in DOMAIN ratios /\ ~isna(ratios[metric])

\* MetricPoints with strict comparisons: a value exactly at a threshold
\* falls into the band below it
MetricPointsStrict(metric, value) ==
    LET t == get_color_thresholds[metric]
    IN  IF metric = "Debt to Equity"
        THEN (IF Lt(value, t.good) THEN 3 ELSE IF Lt(value, t.neutral) THEN 2 ELSE 1)
        ELSE (IF Gt(value, t.good) THEN 3 ELSE IF Gt(value, t.neutral) THEN 2 ELSE 1)

\* the 3/2/1 points of one available metric
MetricPoints(metric, value) ==
    LET t == get_color_thresholds[metric]
    IN  IF metric = "Debt to Equity"
        THEN (IF Le(value, t.good) THEN 3 ELSE IF Le(value, t.neutral) THEN 2 ELSE 1)
        ELSE (IF Ge(value, t.good) THEN 3 ELSE IF Ge(value, t.neutral) THEN 2 ELSE 1)

\* the loop over weights.items(): acc = <<score, total_weight>>
RECURSIVE RatingLoop(_, _, _)
RatingLoop(ratios, i, acc) ==
    IF i > Len(WeightOrder) THEN acc
    ELSE LET metric == WeightOrder[i]
             weight == weights[metric]
         IN  IF Available(ratios, metric)
             THEN RatingLoop(ratios, i + 1,
                    <<F64Add(acc[1], F64MulInt(weight, MetricPoints(metric, ratios[metric]))),
                      F64Add(acc[2], weight)>>)
             ELSE RatingLoop(ratios, i + 1, acc)

LetterGrade(final_score) ==
    IF F64Ge(final_score, F64_2_7) THEN "A"
    ELSE IF F64Ge(final_score, F64_2_3) THEN "B"
    ELSE IF F64Ge(final_score, F64_2_0) THEN "C"
    ELSE IF F64Ge(final_score, F64_1_7) THEN "D"
    ELSE "F"

\* final_score of calculate_rating, BigZero when total_weight is 0
RatingScore(ratios) ==
    LET acc == RatingLoop(ratios, 1, <<BigZero, BigZero>>)
    IN  IF acc[2] # BigZero THEN F64Div(acc[1], acc[2]) ELSE BigZero

calculate_rating(ratios) ==
    LET acc == RatingLoop(ratios, 1, <<BigZero, BigZero>>)
    IN  IF acc[2] # BigZero THEN LetterGrade(F64Div(acc[1], acc[2])) ELSE "N/A"

----------------------------------------------------------------------------
(* calculate_growth_rate: data_series is a most-recent-first row *)

\* the growth rate divided by the previous value itself, not its magnitude
growth_rate_signed(data_series) ==
    IF Len(data_series) >= 2
    THEN LET current  == data_series[1]
             previous == data_series[2]
         IN  IF Ne(previous, IntV(0))
             THEN Mul(Div(Sub(current, previous), previous), IntV(100))
             ELSE NaN
    ELSE NaN

calculate_growth_rate(data_series) ==
    IF Len(data_series) >= 2
    THEN LET current  == data_series[1]
             previous == data_series[2]
         IN  IF Ne(previous, IntV(0))
             THEN Mul(Div(Sub(current, previous), AbsV(previous)), IntV(100))
             ELSE NaN
    ELSE NaN

----------------------------------------------------------------------------
(* calculate_valuation_metrics(ticker, info, ratios) *)

\* the empty dict
EmptyDict == <<>>

\* dict.get(key, default)
Get(d, key, default) == IF key \in DOMAIN d THEN d[key] ELSE default

DefaultPE == 15
IndustryPECap == 50

BaseMargin == Num(20, 100)
HighLeverageStep == Num(10, 100)
MarginCap == Num(40, 100)
LowLeverageStep == Num(5, 100)
MarginFloor == Num(10, 100)
BandFloorFactor == Num(12, 10)
PriceFloorFactor == Num(1, 10)

\* lines 104-111: the leverage-adjusted margin of safety
MarginOfSafety(ratios) ==
    IF "Debt to Equity" \in DOMAIN ratios /\ ~isna(ratios["Debt to Equity"])
    THEN IF Gt(ratios["Debt to Equity"], IntV(2))
         THEN Min(Add(BaseMargin, HighLeverageStep), MarginCap)
         ELSE IF Lt(ratios["Debt to Equity"], IntV(1))
              THEN Max(Sub(BaseMargin, LowLeverageStep), MarginFloor)
              ELSE BaseMargin
    ELSE BaseMargin

\* the status with the band's ends excluded from Fair Valued
ValuationStatusOpenBand(current_price, conservative_value, optimistic_value) ==
    IF Le(current_price, conservative_value) THEN "Undervalued"
    ELSE IF Ge(current_price, optimistic_value) THEN "Overvalued"
    ELSE "Fair Valued"

\* lines 121-126
ValuationStatus(current_price, conservative_value, optimistic_value) ==
    IF Lt(current_price, conservative_value) THEN "Undervalued"
    ELSE IF Gt(current_price, optimistic_value) THEN "Overvalued"
    ELSE "Fair Valued"

\* line 129
UpsidePotential(current_price, optimistic_value) ==
    Mul(Div(Sub(optimistic_value, current_price), current_price), IntV(100))

\* line 130
DownsideRisk(current_price, conservative_value) ==
    Mul(Div(Sub(current_price, conservative_value), current_price), IntV(100))

\* lines 114-118: <<conservative_value, optimistic_value>> at the return
ValueBand(base_fair_value, margin_of_safety, current_price) ==
    LET conservative == Max(Mul(base_fair_value, Sub(IntV(1), margin_of_safety)), IntV(0))
        optimistic   == Max(Mul(base_fair_value, Add(IntV(1), margin_of_safety)),
                            Mul(conservative, BandFloorFactor))
    IN  <<Max(conservative, Mul(current_price, PriceFloorFactor)), optimistic>>

\* f"{x:.2f}": x to the nearest hundredth, ties to even (the tie of a value
\* that is not a binary fraction falls as its binary64 expansion decides)
Round2(x) ==
    LET q == (x.n * 100) \div x.d
        r == (x.n * 100) % x.d
    IN  IF 2 * r > x.d \/ (2 * r = x.d /\ q % 2 = 1) THEN Num(q + 1, 100) ELSE Num(q, 100)

\* the locals of calculate_valuation_metrics when it leaves, and the exit taken:
\* "negative" (line 59), "unable" (line 90), "error" (line 145), "computed" (line 132)
ValuationLocals(info, ratios) ==
    LET current_price == Get(info, "currentPrice", NaN)
        forward_pe0   == Get(info, "forwardPE", NaN)
        forward_eps   == Get(info, "forwardEps", NaN)
        negative      == isna(forward_eps) \/ Le(forward_eps, IntV(0))
        revenue_per_share == Get(info, "revenuePerShare", NaN)
        price_to_sales    == Get(info, "priceToSalesTrailing12Months", NaN)
        industry_ps   == Get(info, "industryPriceToSales", price_to_sales)
        industry_pe0  == Get(info, "industryPE", forward_pe0)
        industry_pe1  == IF isna(industry_pe0) \/ Le(industry_pe0, IntV(0))
                         THEN IntV(DefaultPE) ELSE industry_pe0
        forward_pe1   == IF ~isna(forward_pe0) /\ Gt(forward_pe0, IntV(0))
                         THEN forward_pe0 ELSE IntV(DefaultPE)
        industry_pe   == Min(industry_pe1, IntV(IndustryPECap))
        forward_pe    == IF negative THEN forward_pe0 ELSE forward_pe1
        base_fair_value ==
            IF negative THEN Mul(revenue_per_share, industry_ps)
            ELSE Div(Add(Mul(forward_eps, forward_pe1), Mul(forward_eps, industry_pe)), IntV(2))
        margin_of_safety == MarginOfSafety(ratios)
        band == ValueBand(base_fair_value, margin_of_safety, current_price)
        common == [current_price |-> current_price, forward_pe |-> forward_pe,
                   forward_eps |-> forward_eps,
                   industry_pe |-> IF negative THEN NaN ELSE industry_pe,
                   base_fair_value |-> base_fair_value,
                   margin_of_safety |-> margin_of_safety,
                   conservative_value |-> NaN, optimistic_value |-> NaN]
    IN  IF negative /\ (isna(revenue_per_share) \/ isna(price_to_sales))
        THEN [common EXCEPT !.base_fair_value = NaN] @@ [exit |-> "negative"]
        ELSE IF isna(base_fair_value) \/ Le(base_fair_value, IntV(0))
        THEN common @@ [exit |-> "unable"]
        ELSE IF Eq(current_price, IntV(0))
        THEN common @@ [exit |-> "error"]     \* ZeroDivisionError at line 129
        ELSE [common EXCEPT !.conservative_value = band[1],
                            !.optimistic_value = band[2]] @@ [exit |-> "computed"]

calculate_valuation_metrics(info, ratios) ==
    LET l == ValuationLocals(info, ratios)
        industry == Get(info, "industry", Str("N/A"))
        sector   == Get(info, "sector", Str("N/A"))
        failed(status) ==
            ("Forward P/E" :> l.forward_pe) @@ ("Industry P/E" :> NaN) @@
            ("Forward EPS" :> l.forward_eps) @@ ("Industry" :> industry) @@
            ("Sector" :> sector) @@ ("Fair Value" :> NaN) @@
            ("Value Range" :> Str("N/A")) @@ ("Valuation Status" :> Str(status)) @@
            ("Upside Potential (%)" :> NaN) @@ ("Downside Risk (%)" :> NaN)
    IN  CASE l.exit = "negative" -> failed("Negative Earnings")
          [] l.exit = "unable" -> failed("Unable to Calculate")
          [] l.exit = "error" ->
               ("Forward P/E" :> NaN) @@ ("Industry P/E" :> NaN) @@
               ("Forward EPS" :> NaN) @@ ("Industry" :> Str("N/A")) @@
               ("Sector" :> Str("N/A")) @@ ("Fair Value" :> NaN) @@
               ("Value Range" :> Str("N/A")) @@
               ("Valuation Status" :> Str("Error in Calculation")) @@
               ("Upside Potential (%)" :> NaN) @@ ("Downside Risk (%)" :> NaN)
          [] l.exit = "computed" ->
               ("Forward P/E" :> l.forward_pe) @@ ("Industry P/E" :> l.industry_pe) @@
               ("Forward EPS" :> l.forward_eps) @@ ("Industry" :> industry) @@
               ("Sector" :> sector) @@ ("Fair Value" :> l.base_fair_value) @@
               ("Value Range" :> [k |-> "range", lo |-> Round2(l.conservative_value),
                                               hi |-> Round2(l.optimistic_value)]) @@
               ("Valuation Status" :>
                   Str(ValuationStatus(l.current_price, l.conservative_value,
                                       l.optimistic_value))) @@
               ("Upside Potential (%)" :>
                   UpsidePotential(l.current_price, l.optimistic_value)) @@
               ("Downside Risk (%)" :>
                   DownsideRisk(l.current_price, l.conservative_value))

----------------------------------------------------------------------------
(* calculate_ratios(ticker).  The fetched source is                        *)
(* [ok, income_stmt, balance_sheet, cash_flow, info]: ok is FALSE when the *)
(* provider raises; a statement table maps a row label to its row of       *)
(* period values, most recent first; info maps a key to a scalar.          *)

In(table, label) == label \in DOMAIN table

\* table.loc[label, table.columns[0]]
Cell(table, label) == table[label][1]

current_liabilities_fields ==
    <<"Total Current Liabilities", "Current Liabilities", "Total Current Liab">>

operating_income_fields ==
    <<"Operating Income", "EBIT", "Operating Income Or Loss", "Income Before Tax">>

net_income_fields ==
    <<"Net Income", "Net Income Common Stockholders", "Net Income From Continuing Ops">>

\* "for field in fields: if field in table.index: ...; break", None when no
\* field is in the index
FirstMatch(table, fields) ==
    LET present == {i \in 1..Len(fields) : In(table, fields[i])}
    IN  IF present = {} THEN None
        ELSE Cell(table, fields[CHOOSE i \in present : \A j \in present : i <= j])

\* lines 284-357
RoceRoicBlock(src, ratios) ==
    LET failed == ("ROCE (%)" :> NaN) @@ ("ROIC (%)" :> NaN) @@ ratios
        current_liabilities == FirstMatch(src.balance_sheet, current_liabilities_fields)
        operating_income    == FirstMatch(src.income_stmt, operating_income_fields)
        net_income          == FirstMatch(src.income_stmt, net_income_fields)
    IN  IF ~In(src.balance_sheet, "Total Assets") THEN failed        \* KeyError
        ELSE IF current_liabilities = None THEN failed               \* ValueError
        ELSE IF operating_income = None THEN failed                  \* ValueError
        ELSE IF net_income = None THEN failed                        \* ValueError
        ELSE LET total_assets == Cell(src.balance_sheet, "Total Assets")
                 capital_employed == Sub(total_assets, current_liabilities)
                 roce == IF Ne(capital_employed, IntV(0))
                         THEN Mul(Div(operating_income, capital_employed), IntV(100))
                         ELSE NaN
                 roic == IF Ne(capital_employed, IntV(0))
                         THEN Mul(Div(net_income, capital_employed), IntV(100))
                         ELSE NaN
             IN  ("ROCE (%)" :> roce) @@ ("ROIC (%)" :> roic) @@ ratios

\* lines 359-367
MarketBlock(src, ratios) ==
    ("Market Price" :> Get(src.info, "currentPrice", NaN)) @@
    ("P/E Ratio" :> Get(src.info, "trailingPE", NaN)) @@ ratios

\* lines 369-384
GrowthBlock(src, ratios) ==
    LET eps == IF In(src.income_stmt, "Basic EPS")
               THEN ("EPS Growth Rate (%)" :>
                        calculate_growth_rate(src.income_stmt["Basic EPS"]))
               ELSE EmptyDict
        rev == IF In(src.income_stmt, "Total Revenue")
               THEN ("Revenue Growth Rate (%)" :>
                        calculate_growth_rate(src.income_stmt["Total Revenue"]))
               ELSE EmptyDict
    IN  rev @@ eps @@ ratios

\* lines 386-388
ValuationBlock(src, ratios) == calculate_valuation_metrics(src.info, ratios) @@ ratios

\* lines 390-405
ProfitabilityBlock(src, ratios) ==
    LET revenue == Cell(src.income_stmt, "Total Revenue")
        gross == IF In(src.income_stmt, "Gross Profit") /\ In(src.income_stmt, "Total Revenue")
                 THEN ("Gross Margin (%)" :>
                         IF Ne(revenue, IntV(0))
                         THEN Mul(Div(Cell(src.income_stmt, "Gross Profit"), revenue), IntV(100))
                         ELSE NaN)
                 ELSE EmptyDict
        oper  == IF In(src.income_stmt, "Operating Income") /\ In(src.income_stmt, "Total Revenue")
                 THEN ("Operating Margin (%)" :>
                         IF Ne(revenue, IntV(0))
                         THEN Mul(Div(Cell(src.income_stmt, "Operating Income"), revenue), IntV(100))
                         ELSE NaN)
                 ELSE EmptyDict
    IN  oper @@ gross @@ ratios

\* lines 407-420
DebtToEquityBlock(src, ratios) ==
    IF In(src.balance_sheet, "Long Term Debt") /\ In(src.balance_sheet, "Short Term Debt")
    THEN IF ~In(src.balance_sheet, "Total Stockholder Equity")
         THEN ("Debt to Equity" :> NaN) @@ ratios                    \* KeyError
         ELSE LET total_debt == Add(Cell(src.balance_sheet, "Long Term Debt"),
                                    Cell(src.balance_sheet, "Short Term Debt"))
                  total_equity == Cell(src.balance_sheet, "Total Stockholder Equity")
              IN  ("Debt to Equity" :>
                      IF Ne(total_equity, IntV(0)) THEN Div(total_debt, total_equity)
                      ELSE NaN) @@ ratios
    ELSE LET leverage == Get(src.info, "debtToEquity", NaN)
         IN  ("Debt to Equity" :>
                 IF leverage # None THEN Div(leverage, IntV(100)) ELSE None) @@ ratios

\* lines 422-437
CashAndCoverageBlock(src, ratios) ==
    LET cash == IF In(src.cash_flow, "Operating Cash Flow") /\ In(src.income_stmt, "Net Income")
                THEN LET net_income == Cell(src.income_stmt, "Net Income")
                     IN  ("Cash Conversion (%)" :>
                            IF Ne(net_income, IntV(0))
                            THEN Mul(Div(Cell(src.cash_flow, "Operating Cash Flow"),
                                         net_income), IntV(100))
                            ELSE NaN)
                ELSE EmptyDict
        coverage == In(src.income_stmt, "Interest Expense")
                       /\ In(src.income_stmt, "Operating Income")
    IN  IF coverage /\ Cell(src.income_stmt, "Interest Expense") = None
        THEN ("Cash Conversion (%)" :> NaN) @@                       \* TypeError in abs()
             ("Interest Coverage" :> NaN) @@ ratios
        ELSE IF coverage
        THEN LET interest_expense == AbsV(Cell(src.income_stmt, "Interest Expense"))
             IN  ("Interest Coverage" :>
                    IF Ne(interest_expense, IntV(0))
                    THEN Div(Cell(src.income_stmt, "Operating Income"), interest_expense)
                    ELSE NaN) @@ cash @@ ratios
        ELSE cash @@ ratios

\* the ratios dict at line 439
RatiosOf(src) ==
    CashAndCoverageBlock(src,
      DebtToEquityBlock(src,
        ProfitabilityBlock(src,
          ValuationBlock(src,
            GrowthBlock(src,
              MarketBlock(src,
                RoceRoicBlock(src, EmptyDict)))))))

\* returns <<ratios, error>>
calculate_ratios(ticker, src) ==
    IF src.ok THEN <<RatiosOf(src), None>>
    ELSE <<None, [k |-> "str", s |-> "Error processing", ticker |-> ticker]>>

----------------------------------------------------------------------------
(* Specifications of the pure functions: Init draws the argument from a    *)
(* bounded set, the action applies the function.                           *)

NoResult == Str("none")

MainIdle ==
    /\ tickers = <<>>
    /\ idx = 0
    /\ all_ratios = EmptyDict
    /\ errors = <<>>
    /\ ratings = EmptyDict

\* --- calculate_rating ---

Delta == 1

\* the values a weighted metric takes: one on the bad side of its neutral
\* threshold, the neutral threshold, the good threshold
MetricValue(metric, c) ==
    LET t == get_color_thresholds[metric]
        off == IF metric = "Debt to Equity" THEN IntV(Delta) ELSE IntV(-Delta)
    IN  CASE c = 1 -> NaN
          [] c = 2 -> Add(t.neutral, off)
          [] c = 3 -> t.neutral
          [] c = 4 -> t.good

\* choice 0 leaves the metric out of the dict
RatioSetOf(choice) ==
    [m \in {m \in DOMAIN choice : choice[m] # 0} |-> MetricValue(m, choice[m])]

RatingInit ==
    /\ pc = "rating_call"
    /\ \E choice \in [DOMAIN weights -> 0..4] : arg = RatioSetOf(choice)
    /\ result = NoResult
    /\ MainIdle

Rate ==
    /\ pc = "rating_call"
    /\ result' = Str(calculate_rating(arg))
    /\ pc' = "rating_done"
    /\ UNCHANGED <<arg, mainVars>>

SpecRating == RatingInit /\ [][Rate]_vars

\* --- calculate_valuation_metrics ---

MaxPrice == 12
MaxEps == 2

OptionalKey(key, values) == {EmptyDict} \cup {(key :> v) : v \in values}

ValuationInfos ==
    {a @@ b @@ c @@ d @@ e @@ f @@ g :
        a \in OptionalKey("currentPrice", {IntV(n) : n \in 0..MaxPrice}),
        b \in OptionalKey("forwardEps", {IntV(n) : n \in -1..MaxEps}),
        c \in OptionalKey("forwardPE", {IntV(0), IntV(1), IntV(10)}),
        d \in OptionalKey("industryPE", {IntV(0), IntV(60)}),
        e \in OptionalKey("revenuePerShare", {IntV(10)}),
        f \in OptionalKey("priceToSalesTrailing12Months", {IntV(2)}),
        g \in OptionalKey("industryPriceToSales", {IntV(3)})}

LeverageRatios ==
    OptionalKey("Debt to Equity", {NaN, Num(1, 2), Num(3, 2), IntV(3)})

ValuationInit ==
    /\ pc = "valuation_call"
    /\ \E info \in ValuationInfos, ratios \in LeverageRatios :
          arg = [info |-> info, ratios |-> ratios]
    /\ result = NoResult
    /\ MainIdle

Estimate ==
    /\ pc = "valuation_call"
    /\ result' = calculate_valuation_metrics(arg.info, arg.ratios)
    /\ pc' = "valuation_done"
    /\ UNCHANGED <<arg, mainVars>>

SpecValuation == ValuationInit /\ [][Estimate]_vars

\* --- calculate_growth_rate ---

MaxPeriods == 3
MaxLevel == 6

SeriesValues == {NaN} \cup {IntV(20 * n) : n \in -MaxLevel..MaxLevel}

GrowthInit ==
    /\ pc = "growth_call"
    /\ \E n \in 0..MaxPeriods : arg \in [1..n -> SeriesValues]
    /\ result = NoResult
    /\ MainIdle

Growth ==
    /\ pc = "growth_call"
    /\ result' = calculate_growth_rate(arg)
    /\ pc' = "growth_done"
    /\ UNCHANGED <<arg, mainVars>>

SpecGrowth == GrowthInit /\ [][Growth]_vars

\* --- calculate_ratios ---

Row(a, b) == <<IntV(a), IntV(b)>>

\* a snapshot in which every label the code looks up is present
FullSource ==
    [ok |-> TRUE,
     income_stmt |->
        ("Total Revenue" :> Row(200, 160)) @@ ("Gross Profit" :> Row(80, 60)) @@
        ("Operating Income" :> Row(30, 25)) @@ ("EBIT" :> Row(32, 26)) @@
        ("Operating Income Or Loss" :> Row(34, 27)) @@
        ("Income Before Tax" :> Row(36, 28)) @@
        ("Net Income" :> Row(20, 16)) @@
        ("Net Income Common Stockholders" :> Row(22, 17)) @@
        ("Net Income From Continuing Ops" :> Row(24, 18)) @@
        ("Basic EPS" :> Row(2, 1)) @@ ("Interest Expense" :> Row(-6, -5)),
     balance_sheet |->
        ("Total Assets" :> Row(500, 450)) @@
        ("Total Current Liabilities" :> Row(100, 90)) @@
        ("Current Liabilities" :> Row(120, 95)) @@
        ("Total Current Liab" :> Row(140, 98)) @@
        ("Total Debt" :> Row(200, 180)) @@
        ("Long Term Debt" :> Row(150, 140)) @@ ("Short Term Debt" :> Row(50, 40)) @@
        ("Total Stockholder Equity" :> Row(100, 80)),
     cash_flow |-> ("Operating Cash Flow" :> Row(18, 15)),
     info |->
        ("currentPrice" :> IntV(10)) @@ ("trailingPE" :> IntV(12)) @@
        ("forwardEps" :> IntV(1)) @@ ("forwardPE" :> IntV(10)) @@
        ("debtToEquity" :> IntV(150))]

Dropped == [k |-> "drop"]

Tables == {"income_stmt", "balance_sheet", "cash_flow"}

\* the provider answers with empty frames
EmptySource ==
    [ok |-> TRUE, income_stmt |-> EmptyDict, balance_sheet |-> EmptyDict,
     cash_flow |-> EmptyDict, info |-> FullSource.info]

\* the provider raises
FailedSource == [EmptySource EXCEPT !.ok = FALSE]

\* one departure of a snapshot from FullSource: a label or key the provider
\* does not report (v = Dropped), or a most-recent cell holding v
Edits ==
    UNION {{[t |-> t, label |-> l, v |-> Dropped] : l \in DOMAIN FullSource[t]} :
                   t \in Tables}
    \cup {[t |-> "info", label |-> l, v |-> Dropped] :
             l \in {"currentPrice", "forwardEps", "debtToEquity"}}
    \cup {[t |-> "income_stmt", label |-> l, v |-> v] :
             l \in {"Total Revenue", "Net Income", "Interest Expense"},
             v \in {IntV(0), NaN}}
    \cup {[t |-> "income_stmt", label |-> "Interest Expense", v |-> None],
          [t |-> "balance_sheet", label |-> "Total Stockholder Equity", v |-> IntV(0)],
          [t |-> "balance_sheet", label |-> "Total Stockholder Equity", v |-> NaN],
          [t |-> "balance_sheet", label |-> "Total Stockholder Equity", v |-> IntV(50)],
          [t |-> "balance_sheet", label |-> "Total Stockholder Equity", v |-> IntV(400)],
          [t |-> "balance_sheet", label |-> "Total Assets", v |-> IntV(100)],
          [t |-> "info", label |-> "debtToEquity", v |-> None]}

MaxEdits == 3

RECURSIVE EditSets(_)
EditSets(n) ==
    IF n = 0 THEN {{}} ELSE LET S == EditSets(n - 1) IN S \cup {E \cup {e} : E \in S, e \in Edits}

\* an edit set is applied when it holds at most one edit per label
Consistent(E) == \A e1, e2 \in E : (e1.t = e2.t /\ e1.label = e2.label) => e1 = e2

EditTable(table, t, E) ==
    LET dropped == {e.label : e \in {e \in E : e.t = t /\ e.v = Dropped}}
        set     == {e \in E : e.t = t /\ e.v # Dropped}
    IN  [l \in DOMAIN table \ dropped |->
           IF \E e \in set : e.label = l
           THEN LET e == CHOOSE e \in set : e.label = l
                IN  IF t = "info" THEN e.v ELSE <<e.v>> \o Tail(table[l])
           ELSE table[l]]

Edited(E) ==
    [ok |-> TRUE,
     income_stmt   |-> EditTable(FullSource.income_stmt, "income_stmt", E),
     balance_sheet |-> EditTable(FullSource.balance_sheet, "balance_sheet", E),
     cash_flow     |-> EditTable(FullSource.cash_flow, "cash_flow", E),
     info          |-> EditTable(FullSource.info, "info", E)]

Sources == {FailedSource, EmptySource} \cup {Edited(E) : E \in {E \in EditSets(MaxEdits) : Consistent(E)}}

RatiosInit ==
    /\ pc = "ratios_call"
    /\ arg \in Sources
    /\ result = NoResult
    /\ MainIdle

Derive ==
    /\ pc = "ratios_call"
    /\ result' = calculate_ratios("AAPL", arg)
    /\ pc' = "ratios_done"
    /\ UNCHANGED <<arg, mainVars>>

SpecRatios == RatiosInit /\ [][Derive]_vars

----------------------------------------------------------------------------
(* main(): the Analyze button handler, one action per loop iteration *)

Tickers == {"AAPL", "MSFT", "GOOGL"}

MaxTickers == 3

BatchSources == {FailedSource, EmptySource, FullSource}

\* lines 469-474: the loop body after calculate_ratios returned
\* the loop body without line 476: a failed ticker leaves no trace
LoopBodySilentFailure(st, ticker, ret) ==
    LET ratios == ret[1]
        error  == ret[2]
    IN  IF error # None
        THEN st
        ELSE [st EXCEPT !.all_ratios = (ticker :> ratios) @@ @,
                        !.ratings = (ticker :> calculate_rating(ratios)) @@ @]

LoopBody(st, ticker, ret) ==
    LET ratios == ret[1]
        error  == ret[2]
    IN  IF error # None
        THEN [st EXCEPT !.errors = Append(@, error)]
        ELSE [st EXCEPT !.all_ratios = (ticker :> ratios) @@ @,
                        !.ratings = (ticker :> calculate_rating(ratios)) @@ @]

Init ==
    /\ pc = "idle"
    /\ arg = NoResult
    /\ result = NoResult
    /\ MainIdle

\* lines 457-463: the button is pressed with a non-empty input
Analyze ==
    /\ pc = "idle"
    /\ \E n \in 1..MaxTickers : tickers' \in [1..n -> Tickers]
    /\ idx' = 0
    /\ all_ratios' = EmptyDict
    /\ errors' = <<>>
    /\ ratings' = EmptyDict
    /\ pc' = "loop"
    /\ UNCHANGED <<arg, result>>

\* lines 465-476: one iteration
ProcessTicker ==
    /\ pc = "loop"
    /\ idx < Len(tickers)
    /\ \E src \in BatchSources :
          \E st \in {LoopBody([all_ratios |-> all_ratios, errors |-> errors,
                               ratings |-> ratings],
                              tickers[idx + 1],
                              calculate_ratios(tickers[idx + 1], src))} :
              /\ all_ratios' = st.all_ratios
              /\ errors' = st.errors
              /\ ratings' = st.ratings
    /\ idx' = idx + 1
    /\ UNCHANGED <<pc, tickers, arg, result>>

\* lines 478-593: the loop is over, the table and the errors are shown
Render ==
    /\ pc = "loop"
    /\ idx = Len(tickers)
    /\ pc' = "done"
    /\ UNCHANGED <<arg, result, mainVars>>

Next == Analyze \/ ProcessTicker \/ Render

Spec == Init /\ [][Next]_vars

----------------------------------------------------------------------------
(* Properties of the batch loop (under Spec) *)

NamedInErrors(t) == \E i \in 1..Len(errors) : errors[i].ticker = t

Requested == {tickers[i] : i \in 1..Len(tickers)}

Distinct(seq) == \A i, j \in 1..Len(seq) : seq[i] = seq[j] => i = j

\* C1 (as stated): after the loop the batch holds exactly N records, every
\* requested ticker is in all_ratios (with a rating) or named in errors,
\* never both and never neither.
C1_ExactlyNRecords ==
    pc = "done" =>
        /\ Cardinality(DOMAIN all_ratios) + Len(errors) = Len(tickers)
        /\ \A t \in Requested : (t \in DOMAIN all_ratios) # NamedInErrors(t)
        /\ DOMAIN ratings = DOMAIN all_ratios

\* C1 (amended): the loop reaches every position of the list, every
\* requested ticker is in all_ratios (with a rating) or named in errors,
\* nothing else is recorded, and when the requested tickers are pairwise
\* distinct there are exactly N records and no ticker has both.
C1_OneRecordPerDistinctTicker ==
    pc = "done" =>
        /\ idx = Len(tickers)
        /\ \A t \in Requested : t \in DOMAIN all_ratios \/ NamedInErrors(t)
        /\ DOMAIN all_ratios \subseteq Requested
        /\ \A i \in 1..Len(errors) : errors[i].ticker \in Requested
        /\ DOMAIN ratings = DOMAIN all_ratios
        /\ Len(errors) <= Len(tickers)
        /\ Distinct(tickers) =>
              /\ Cardinality(DOMAIN all_ratios) + Len(errors) = Len(tickers)
              /\ \A t \in Requested : ~(t \in DOMAIN all_ratios /\ NamedInErrors(t))

\* a finished batch of three distinct tickers whose second fetch failed and
\* whose first and third tickers were still analysed and rated
C1_Witness ==
    /\ pc = "done"
    /\ Len(tickers) = 3
    /\ Distinct(tickers)
    /\ Len(errors) = 1
    /\ errors[1].ticker = tickers[2]
    /\ {tickers[1], tickers[3]} = DOMAIN all_ratios
    /\ {tickers[1], tickers[3]} = DOMAIN ratings

----------------------------------------------------------------------------
(* Properties of calculate_valuation_metrics (under SpecValuation) *)

ValuationDone == pc = "valuation_done"

\* the call returned a computed band (line 132)
BandComputed == ValuationDone /\ result["Value Range"].k = "range"

ReturnedLocals == ValuationLocals(arg.info, arg.ratios)

StatusOf(ret) == ret["Valuation Status"].s

\* C2: with a computed band the status is Undervalued exactly when price <
\* conservative, Overvalued exactly when price > optimistic, Fair Valued
\* otherwise; upside is (optimistic - price) / price * 100 and downside is
\* (price - conservative) / price * 100; price 100 against 90..130 is Fair
\* Valued with upside 30 and downside 10, price 80 Undervalued, 140 Overvalued.
C2_StatusAndReturns ==
    /\ BandComputed =>
         LET price == ReturnedLocals.current_price
             cons  == ReturnedLocals.conservative_value
             opt   == ReturnedLocals.optimistic_value
             up    == result["Upside Potential (%)"]
             down  == result["Downside Risk (%)"]
         IN  /\ (StatusOf(result) = "Undervalued") <=> Lt(price, cons)
             /\ (StatusOf(result) = "Overvalued") <=> Gt(price, opt)
             /\ (StatusOf(result) = "Fair Valued") <=> (~Lt(price, cons) /\ ~Gt(price, opt))
             /\ IF IsNum(price)
                THEN /\ IsNum(up) /\ IsNum(down)
                     /\ Mul(up, price) = Mul(Sub(opt, price), IntV(100))
                     /\ Mul(down, price) = Mul(Sub(price, cons), IntV(100))
                ELSE isna(up) /\ isna(down)
    /\ ValuationStatus(IntV(100), IntV(90), IntV(130)) = "Fair Valued"
    /\ UpsidePotential(IntV(100), IntV(130)) = IntV(30)
    /\ DownsideRisk(IntV(100), IntV(90)) = IntV(10)
    /\ ValuationStatus(IntV(80), IntV(90), IntV(130)) = "Undervalued"
    /\ ValuationStatus(IntV(140), IntV(90), IntV(130)) = "Overvalued"

\* a computed band with a price strictly below it, reported Undervalued
C2_Witness ==
    /\ BandComputed
    /\ IsNum(ReturnedLocals.current_price)
    /\ Lt(ReturnedLocals.current_price, ReturnedLocals.conservative_value)
    /\ StatusOf(result) = "Undervalued"
    /\ IsNum(result["Upside Potential (%)"])

\* C3: with a computed band, optimistic >= 1.2 * conservative, also when the
\* conservative value was raised to 0.1 * current price.
C3_BandNonDegenerate ==
    BandComputed =>
        Ge(ReturnedLocals.optimistic_value,
           Mul(ReturnedLocals.conservative_value, Num(12, 10)))

MissingRequiredInput(info) ==
    \/ "currentPrice" \notin DOMAIN info
    \/ /\ "forwardEps" \notin DOMAIN info
       /\ \/ "revenuePerShare" \notin DOMAIN info
          \/ "priceToSalesTrailing12Months" \notin DOMAIN info

\* C4: with a required input missing the estimate is fully unable-to-compute:
\* the status is none of Undervalued / Fair Valued / Overvalued and Forward
\* P/E, Industry P/E, Fair Value, upside and downside are all unavailable.
C4_MissingInputFullyUnavailable ==
    (ValuationDone /\ MissingRequiredInput(arg.info)) =>
        /\ StatusOf(result) \notin {"Undervalued", "Fair Valued", "Overvalued"}
        /\ \A f \in {"Forward P/E", "Industry P/E", "Fair Value",
                     "Upside Potential (%)", "Downside Risk (%)"} : isna(result[f])

----------------------------------------------------------------------------
(* Properties of calculate_rating (under SpecRating) *)

RatingDone == pc = "rating_done"

AllSixAt(ratios, gm, om, roce, cc, de, ic) ==
    ratios = ("Gross Margin (%)" :> IntV(gm)) @@ ("Operating Margin (%)" :> IntV(om)) @@
             ("ROCE (%)" :> IntV(roce)) @@ ("Cash Conversion (%)" :> IntV(cc)) @@
             ("Debt to Equity" :> IntV(de)) @@ ("Interest Coverage" :> IntV(ic))

NoneAvailable(ratios) == \A m \in DOMAIN ratios : ratios[m] = NaN

\* the double 3.0, in units of 2^-55
F64_3_0 == Big(201326592, 0)

RefThreshold(metric) ==
    CASE metric = "Gross Margin (%)" -> [good |-> 40, neutral |-> 20, w |-> 15]
      [] metric = "Operating Margin (%)" -> [good |-> 15, neutral |-> 8, w |-> 20]
      [] metric = "ROCE (%)" -> [good |-> 15, neutral |-> 10, w |-> 20]
      [] metric = "Cash Conversion (%)" -> [good |-> 90, neutral |-> 70, w |-> 15]
      [] metric = "Debt to Equity" -> [good |-> 1, neutral |-> 2, w |-> 15]
      [] metric = "Interest Coverage" -> [good |-> 5, neutral |-> 2, w |-> 15]

RefUsed(ratios, metric) == metric \in DOMAIN ratios /\ ratios[metric].k = "num"

RefPoints(ratios, metric) ==
    LET v == ratios[metric]
        t == RefThreshold(metric)
    IN  IF metric = "Debt to Equity"
        THEN (IF v.n <= t.good * v.d THEN 3 ELSE IF v.n <= t.neutral * v.d THEN 2 ELSE 1)
        ELSE (IF v.n >= t.good * v.d THEN 3 ELSE IF v.n >= t.neutral * v.d THEN 2 ELSE 1)

RECURSIVE RefSum(_, _, _)
RefSum(ratios, i, weighted) ==
    IF i > Len(WeightOrder) THEN 0
    ELSE (IF RefUsed(ratios, WeightOrder[i])
          THEN RefThreshold(WeightOrder[i]).w *
                  (IF weighted THEN RefPoints(ratios, WeightOrder[i]) ELSE 1)
          ELSE 0) + RefSum(ratios, i + 1, weighted)

RefGrade(ratios) ==
    LET score == RefSum(ratios, 1, TRUE)
        total == RefSum(ratios, 1, FALSE)
    IN  IF total = 0 THEN "N/A"
        ELSE IF 10 * score >= 27 * total THEN "A"
        ELSE IF 10 * score >= 23 * total THEN "B"
        ELSE IF 10 * score >= 20 * total THEN "C"
        ELSE IF 10 * score >= 17 * total THEN "D"
        ELSE "F"

\* C6: for every subset of available weighted ratios and every value, the
\* grade is the reference grade: 3/2/1 points per available ratio (Debt to
\* Equity inverted), weighted sum over the weights used, A >= 2.7, B >= 2.3,
\* C >= 2.0, D >= 1.7, else F.
C6_GradeIsReference ==
    RatingDone => result = Str(RefGrade(arg))

----------------------------------------------------------------------------
(* Properties of calculate_ratios (under SpecRatios) *)

RatiosDone == pc = "ratios_done" /\ arg.ok

Unusable(v) == v.k # "num" \/ v.n = 0

\* the denominator of a ratio of the catalogue cannot be used: its label is
\* missing from the table, or its most recent cell is unavailable or 0
NoRevenue(src) ==
    ~In(src.income_stmt, "Total Revenue") \/ Unusable(Cell(src.income_stmt, "Total Revenue"))

NoCapitalEmployed(src) ==
    \/ ~In(src.balance_sheet, "Total Assets")
    \/ FirstMatch(src.balance_sheet, current_liabilities_fields) = None
    \/ Unusable(Sub(Cell(src.balance_sheet, "Total Assets"),
                    FirstMatch(src.balance_sheet, current_liabilities_fields)))

NoNetIncome(src) ==
    ~In(src.income_stmt, "Net Income") \/ Unusable(Cell(src.income_stmt, "Net Income"))

NoEquity(src) ==
    \/ ~In(src.balance_sheet, "Total Stockholder Equity")
    \/ Unusable(Cell(src.balance_sheet, "Total Stockholder Equity"))

NoInterest(src) ==
    ~In(src.income_stmt, "Interest Expense") \/ Unusable(Cell(src.income_stmt, "Interest Expense"))

StatementDebt(src) ==
    In(src.balance_sheet, "Long Term Debt") /\ In(src.balance_sheet, "Short Term Debt")

MarkedUnavailable(ratios, name) == name \in DOMAIN ratios /\ ratios[name] = NaN

\* C7: a ratio derived by division whose denominator resolves to unavailable
\* or to 0 has the unavailable marker as its value in the result.
C7_BadDenominatorIsMarked ==
    RatiosDone =>
        LET ratios == result[1]
        IN  /\ NoRevenue(arg) => /\ MarkedUnavailable(ratios, "Gross Margin (%)")
                                 /\ MarkedUnavailable(ratios, "Operating Margin (%)")
            /\ NoCapitalEmployed(arg) => /\ MarkedUnavailable(ratios, "ROCE (%)")
                                         /\ MarkedUnavailable(ratios, "ROIC (%)")
            /\ NoNetIncome(arg) => MarkedUnavailable(ratios, "Cash Conversion (%)")
            /\ (StatementDebt(arg) /\ NoEquity(arg)) =>
                  MarkedUnavailable(ratios, "Debt to Equity")
            /\ NoInterest(arg) => MarkedUnavailable(ratios, "Interest Coverage")

Catalogue ==
    {"Gross Margin (%)", "Operating Margin (%)", "ROCE (%)", "ROIC (%)",
     "Cash Conversion (%)", "Debt to Equity", "Interest Coverage",
     "EPS Growth Rate (%)", "Revenue Growth Rate (%)"}

\* C8: a ratio set returned without an error has an entry for every ratio of
\* the catalogue; a ratio that cannot be derived is present and unavailable.
C8_EveryRatioPresent ==
    RatiosDone => Catalogue \subseteq DOMAIN result[1]

Usable(table, label) == In(table, label) /\ ~Unusable(Cell(table, label))

\* C9: a ratio whose own inputs are all available is computed whatever
\* happens to the others: ROCE with operating income, total assets and
\* current liabilities present although no net-income label exists, and Cash
\* Conversion although the derivation of Interest Coverage fails.
C9_IndependentDerivation ==
    RatiosDone =>
        LET ratios == result[1]
        IN  /\ ( /\ FirstMatch(arg.income_stmt, operating_income_fields) # None
                 /\ ~NoCapitalEmployed(arg) ) =>
                   ("ROCE (%)" \in DOMAIN ratios /\ IsNum(ratios["ROCE (%)"]))
            /\ ( /\ In(arg.cash_flow, "Operating Cash Flow")
                 /\ Usable(arg.income_stmt, "Net Income") ) =>
                   ( /\ "Cash Conversion (%)" \in DOMAIN ratios
                     /\ IsNum(ratios["Cash Conversion (%)"]) )

----------------------------------------------------------------------------
(* Properties of calculate_growth_rate (under SpecGrowth) *)

GrowthDone == pc = "growth_done"

\* C10: with at least two points and series[1] != 0 the result is
\* (series[0] - series[1]) / abs(series[1]) * 100 ([120, 100] gives 20,
\* [80, 100] gives -20, a negative previous value divides by its absolute
\* value); with series[1] == 0 or fewer than two points it is unavailable.
C10_GrowthFormula ==
    GrowthDone =>
        /\ Len(arg) < 2 => result = NaN
        /\ (Len(arg) >= 2 /\ arg[2] = IntV(0)) => result = NaN
        /\ (Len(arg) >= 2 /\ IsNum(arg[1]) /\ IsNum(arg[2]) /\ arg[2].n # 0) =>
              /\ IsNum(result)
              /\ result.n * Abs(arg[2].n) = (arg[1].n - arg[2].n) * 100 * result.d
        /\ (Len(arg) >= 2 /\ arg[1] = IntV(120) /\ arg[2] = IntV(100)) => result = IntV(20)
        /\ (Len(arg) >= 2 /\ arg[1] = IntV(80) /\ arg[2] = IntV(100)) => result = IntV(-20)

\* growth from a negative previous value: -100 to -80 is +20 %
C10_Witness ==
    /\ GrowthDone
    /\ Len(arg) >= 2
    /\ arg[1] = IntV(-80)
    /\ arg[2] = IntV(-100)
    /\ result = IntV(20)

----------------------------------------------------------------------------
(* Properties of the Debt to Equity derivation (under SpecRatios) *)

\* the numerator of the fallback chain of C11: 'Total Debt', else the sum of
\* 'Long Term Debt' and 'Short Term Debt', else nothing from the statements
ChainDebt(src) ==
    IF In(src.balance_sheet, "Total Debt") THEN Cell(src.balance_sheet, "Total Debt")
    ELSE IF StatementDebt(src)
    THEN Add(Cell(src.balance_sheet, "Long Term Debt"),
             Cell(src.balance_sheet, "Short Term Debt"))
    ELSE None

\* the value the fallback chain of C11 gives: statement debt over equity,
\* else the market leverage ratio / 100, else unavailable
ChainDebtToEquity(src) ==
    IF ChainDebt(src) # None
    THEN (IF NoEquity(src) THEN NaN
          ELSE Div(ChainDebt(src), Cell(src.balance_sheet, "Total Stockholder Equity")))
    ELSE LET leverage == Get(src.info, "debtToEquity", NaN)
         IN  IF IsNum(leverage) THEN Div(leverage, IntV(100)) ELSE NaN

\* C11: Debt to Equity is total debt over total stockholder equity; without
\* 'Total Debt' but with 'Long Term Debt' and 'Short Term Debt' it is their
\* sum over equity; with neither it is the market leverage ratio / 100; and
\* it is unavailable when that is missing too.
C11_DebtToEquityChain ==
    RatiosDone =>
        LET derived  == result[1]["Debt to Equity"]
            expected == ChainDebtToEquity(arg)
        IN  IF IsNum(expected) THEN derived = expected ELSE isna(derived)

----------------------------------------------------------------------------
(* Properties of the valuation step of calculate_ratios (under SpecRatios) *)

\* the margin of safety C12 assigns to a derived Debt to Equity
LeverageMargin(ratios) ==
    LET de == ratios["Debt to Equity"]
    IN  IF "Debt to Equity" \in DOMAIN ratios /\ IsNum(de) /\ Gt(de, IntV(2)) THEN Num(30, 100)
        ELSE IF "Debt to Equity" \in DOMAIN ratios /\ IsNum(de) /\ Lt(de, IntV(1)) THEN Num(15, 100)
        ELSE Num(20, 100)

\* the value band as displayed, built from a fair value with a given margin
DisplayedBand(fair_value, margin, price) ==
    LET band == ValueBand(fair_value, margin, price)
    IN  [k |-> "range", lo |-> Round2(band[1]), hi |-> Round2(band[2])]

\* C12: the valuation step receives the ticker's derived Debt to Equity: the
\* value band of the returned ratio set is built with margin of safety 0.3
\* when the derived Debt to Equity is above 2, 0.15 when it is below 1, and
\* 0.2 otherwise or when it is unavailable; the margin stays in [0.1, 0.4].
C12_BandUsesDerivedLeverage ==
    (RatiosDone /\ result[1]["Value Range"].k = "range") =>
        LET ratios == result[1]
            margin == LeverageMargin(ratios)
        IN  /\ Ge(margin, Num(10, 100)) /\ Le(margin, Num(40, 100))
            /\ ratios["Value Range"] =
                  DisplayedBand(ratios["Fair Value"], margin, ratios["Market Price"])

----------------------------------------------------------------------------
(* Properties of the line-item resolution (under SpecRatios) *)

\* the most recent value of the first label of the list, in list order, that
\* the table has; None when it has none of them
Resolved(table, fields) ==
    LET present == {i \in 1..Len(fields) : fields[i] \in DOMAIN table}
    IN  IF present = {} THEN None
        ELSE table[fields[CHOOSE i \in present : \A j \in present : i <= j]][1]

ResolvedOperatingIncome(src) == Resolved(src.income_stmt, operating_income_fields)

ResolvedNetIncome(src) == Resolved(src.income_stmt, net_income_fields)

ResolvedCurrentLiabilities(src) == Resolved(src.balance_sheet, current_liabilities_fields)

\* the ROCE / ROIC block resolves its three concepts by first match and is
\* unavailable, without an error, when a concept has no label in the table
RoceRoicFromResolved(src, ratios) ==
    LET cl == ResolvedCurrentLiabilities(src)
        oi == ResolvedOperatingIncome(src)
        ni == ResolvedNetIncome(src)
    IN  IF cl = None \/ oi = None \/ ni = None
        THEN isna(ratios["ROCE (%)"]) /\ isna(ratios["ROIC (%)"])
        ELSE ~NoCapitalEmployed(src) =>
                LET capital_employed == Sub(Cell(src.balance_sheet, "Total Assets"), cl)
                IN  /\ ratios["ROCE (%)"] = Mul(Div(oi, capital_employed), IntV(100))
                    /\ ratios["ROIC (%)"] = Mul(Div(ni, capital_employed), IntV(100))

\* Operating Margin, Interest Coverage and Cash Conversion are computed from
\* the same resolved operating income and net income
OthersFromResolved(src, ratios) ==
    LET oi == ResolvedOperatingIncome(src)
        ni == ResolvedNetIncome(src)
    IN  /\ (oi # None /\ Usable(src.income_stmt, "Total Revenue")) =>
              /\ "Operating Margin (%)" \in DOMAIN ratios
              /\ ratios["Operating Margin (%)"] =
                    Mul(Div(oi, Cell(src.income_stmt, "Total Revenue")), IntV(100))
        /\ (oi # None /\ Usable(src.income_stmt, "Interest Expense")) =>
              /\ "Interest Coverage" \in DOMAIN ratios
              /\ ratios["Interest Coverage"] =
                    Div(oi, AbsV(Cell(src.income_stmt, "Interest Expense")))
        /\ ( /\ ni # None /\ ~Unusable(ni)
             /\ In(src.cash_flow, "Operating Cash Flow")
             /\ ~(In(src.income_stmt, "Interest Expense")
                    /\ Cell(src.income_stmt, "Interest Expense") = None) ) =>
              /\ "Cash Conversion (%)" \in DOMAIN ratios
              /\ ratios["Cash Conversion (%)"] =
                    Mul(Div(Cell(src.cash_flow, "Operating Cash Flow"), ni), IntV(100))

\* C13: every resolution of a concept with a synonym list (current
\* liabilities, operating income, net income) gives the most recent value of
\* the first listed label the table has, and unavailable without an error
\* when it has none; ROCE, Operating Margin and Interest Coverage use that
\* operating income, ROIC and Cash Conversion that net income.
C13_FirstMatchEverywhere ==
    RatiosDone =>
        /\ result[2] = None
        /\ RoceRoicFromResolved(arg, result[1])
        /\ OthersFromResolved(arg, result[1])

============================================================================
